---- MODULE Spec2Model ----
(***************************************************************************)
(* A model of cm-gpt-service (src/server.js): the three POST routes, the   *)
(* verb pool normalizer, the model selection helper, the upstream call     *)
(* with its parameter-stripping fallback, and the parser of the upstream   *)
(* text.                                                                   *)
(*                                                                         *)
(* JavaScript strings that the code inspects character by character (verb  *)
(* texts, levels, the upstream text and its lines) are sequences of        *)
(* one-character strings.  Strings that the code only passes around or     *)
(* compares whole (model identifiers, error messages, error tags) are TLA+ *)
(* strings.                                                                *)
(***************************************************************************)
EXTENDS Integers, Sequences, FiniteSets, TLC

(***************************************************************************)
(* Bounds of the explored inputs.                                          *)
(***************************************************************************)
MaxLines == 3

MaxCount == 3

MaxPool == 3

\* The largest length of an array, beyond which push throws a RangeError.
MaxArrayLength == 8

(***************************************************************************)
(* Characters and the string primitives of the JavaScript runtime.         *)
(***************************************************************************)
Min(a, b) == IF a < b THEN a ELSE b

\* The characters String.prototype.trim removes and the regex class \s matches.
IsSpace(c) == c \in {" ", "\t", "\r", "\n"}

\* The regex class \d.
DigitChars == <<"0", "1", "2", "3", "4", "5", "6", "7", "8", "9">>

IsDigit(c) == \E i \in 1..10 : DigitChars[i] = c

\* First index j >= i of s whose character is not whitespace (Len(s)+1 if none).
RECURSIVE SkipSpace(_, _)
SkipSpace(s, i) ==
  IF i <= Len(s) /\ IsSpace(s[i]) THEN SkipSpace(s, i + 1) ELSE i

\* First index j >= i of s whose character is not a digit (Len(s)+1 if none).
RECURSIVE SkipDigits(_, _)
SkipDigits(s, i) ==
  IF i <= Len(s) /\ IsDigit(s[i]) THEN SkipDigits(s, i + 1) ELSE i

\* Last index j <= i of s whose character is not whitespace (0 if none).
RECURSIVE BackSpace(_, _)
BackSpace(s, i) ==
  IF i >= 1 /\ IsSpace(s[i]) THEN BackSpace(s, i - 1) ELSE i

\* s.slice(i - 1): the suffix of s that starts at index i.
Drop(s, i) == IF i > Len(s) THEN << >> ELSE SubSeq(s, i, Len(s))

\* String.prototype.trim
Trim(s) ==
  LET a == SkipSpace(s, 1)
      b == BackSpace(s, Len(s))
  IN  IF a > b THEN << >> ELSE SubSeq(s, a, b)

UpperLetters ==
  <<"A", "B", "C", "D", "E", "F", "G", "H", "I", "J", "K", "L", "M",
    "N", "O", "P", "Q", "R", "S", "T", "U", "V", "W", "X", "Y", "Z">>

LowerLetters ==
  <<"a", "b", "c", "d", "e", "f", "g", "h", "i", "j", "k", "l", "m",
    "n", "o", "p", "q", "r", "s", "t", "u", "v", "w", "x", "y", "z">>

\* String.prototype.toLowerCase, on ASCII.
LowerChar(c) ==
  IF \E i \in 1..Len(UpperLetters) : UpperLetters[i] = c
  THEN LowerLetters[CHOOSE i \in 1..Len(UpperLetters) : UpperLetters[i] = c]
  ELSE c

ToLowerCase(s) == [i \in 1..Len(s) |-> LowerChar(s[i])]

\* Array.prototype.slice(0, n) for a number n >= 0.
Slice0(xs, n) == SubSeq(xs, 1, Min(Len(xs), n))

\* Array.prototype.filter with the predicate given as the set of kept indices.
RECURSIVE FilterIdx(_, _, _)
FilterIdx(xs, keep, i) ==
  IF i > Len(xs) THEN << >>
  ELSE IF i \in keep THEN <<xs[i]>> \o FilterIdx(xs, keep, i + 1)
  ELSE FilterIdx(xs, keep, i + 1)

\* The decimal digits of a number n >= 0, as `${n}` renders it.
RECURSIVE NumToString(_)
NumToString(n) ==
  IF n < 10 THEN <<DigitChars[n + 1]>>
  ELSE NumToString(n \div 10) \o <<DigitChars[(n % 10) + 1]>>

(***************************************************************************)
(* linesToItems and the regular expressions of the output parser.          *)
(***************************************************************************)
\* String.prototype.split(/\r?\n/)
RECURSIVE SplitLines(_, _, _)
SplitLines(s, i, cur) ==
  IF i > Len(s) THEN <<cur>>
  ELSE IF s[i] = "\n" THEN <<cur>> \o SplitLines(s, i + 1, << >>)
  ELSE IF s[i] = "\r" /\ i < Len(s) /\ s[i + 1] = "\n"
       THEN <<cur>> \o SplitLines(s, i + 2, << >>)
  ELSE SplitLines(s, i + 1, Append(cur, s[i]))

\* /^#+\s*/.test(s): one "#" at the start is enough, the rest is optional.
IsHeading(s) == Len(s) >= 1 /\ s[1] = "#"

\* s.replace(/^\d+[\).]\s*/, '')
StripNumber(s) ==
  LET d == SkipDigits(s, 1)
  IN  IF d > 1 /\ d <= Len(s) /\ s[d] \in {")", "."}
      THEN Drop(s, SkipSpace(s, d + 1))
      ELSE s

\* The bullet character U+2022 of the marker class, written in ASCII here.
BulletDot == "@"

\* s.replace(/^[-*\u2022]\s*/, '')
StripBullet(s) ==
  IF Len(s) >= 1 /\ s[1] \in {"-", "*", BulletDot}
  THEN Drop(s, SkipSpace(s, 2))
  ELSE s

linesToItems(text) ==
  LET split   == SplitLines(text, 1, << >>)
      trimmed == [i \in 1..Len(split) |-> Trim(split[i])]
      kept    == FilterIdx(trimmed,
                   {i \in 1..Len(trimmed) :
                      trimmed[i] # << >> /\ ~IsHeading(trimmed[i])}, 1)
  IN  [i \in 1..Len(kept) |-> StripBullet(StripNumber(kept[i]))]

\* /^CLO\s*\d+\s*:/.test(line)
IsCloLine(line) ==
  /\ Len(line) >= 3
  /\ line[1] = "C" /\ line[2] = "L" /\ line[3] = "O"
  /\ LET a == SkipSpace(line, 4)
         b == SkipDigits(line, a)
         c == SkipSpace(line, b)
     IN  b > a /\ c <= Len(line) /\ line[c] = ":"

(***************************************************************************)
(* The output parser of /api/suggest.  Every item carries, beside its      *)
(* text, the index in linesToItems(raw) of the cleaned line it comes from. *)
(***************************************************************************)
\* linesToItems(raw).filter(line => /^CLO\s*\d+\s*:/.test(line)), as indices.
CloIdx(lines) == {i \in 1..Len(lines) : IsCloLine(lines[i])}

\* linesToItems(raw).filter(s => !/^CLO\s*\d+\s*:/.test(s)), as indices.
ExtraIdx(lines) == {i \in 1..Len(lines) : ~IsCloLine(lines[i])}

\* `CLO${n}: ${extra}`
Synthesize(n, extra) == <<"C", "L", "O">> \o NumToString(n) \o <<":", " ">> \o extra

\* One evaluation of the loop body's first statement: the extras are computed
\* anew from raw, so extras.shift() yields the first of them every time.
FirstExtra(raw) ==
  LET lines  == linesToItems(raw)
      extras == FilterIdx([i \in 1..Len(lines) |-> i], ExtraIdx(lines), 1)
  IN  IF extras = << >> THEN 0 ELSE extras[1]

\* The loop with items.unshift(...) in place of items.push(...).
RECURSIVE PadLoopUnshift(_, _, _)
PadLoopUnshift(items, raw, count) ==
  IF ~(Len(items) < count) THEN items
  ELSE LET e == FirstExtra(raw)
       IN  IF e = 0 THEN items
           ELSE PadLoopUnshift(
                  <<[text   |-> Synthesize(Len(items) + 1, linesToItems(raw)[e]),
                     line   |-> e,
                     padded |-> TRUE]>> \o items,
                  raw, count)

\* while (items.length < count) { ... items.push(...) }
RECURSIVE PadLoop(_, _, _)
PadLoop(items, raw, count) ==
  IF ~(Len(items) < count) THEN items
  ELSE LET e == FirstExtra(raw)
       IN  IF e = 0 THEN items
           ELSE PadLoop(
                  Append(items,
                    [text   |-> Synthesize(Len(items) + 1, linesToItems(raw)[e]),
                     line   |-> e,
                     padded |-> TRUE]),
                  raw, count)

\* The items of the /api/suggest response: items.slice(0, count) after the loop.
SuggestItems(raw, count) ==
  LET lines == linesToItems(raw)
      clo   == FilterIdx([i \in 1..Len(lines) |-> i], CloIdx(lines), 1)
      items == Slice0([k \in 1..Len(clo) |->
                        [text |-> lines[clo[k]], line |-> clo[k], padded |-> FALSE]],
                      count)
  IN  Slice0(PadLoop(items, raw, count), count)

Texts(items) == [k \in 1..Len(items) |-> items[k].text]

(***************************************************************************)
(* JavaScript values of the request body.  A value is a record with its    *)
(* type tag t; cs holds the characters of a string, verb and level the two *)
(* properties of an object (each a value without properties of its own).   *)
(***************************************************************************)
Undefined == [t |-> "undefined", cs |-> << >>]

Null == [t |-> "null", cs |-> << >>]

Str(chars) == [t |-> "string", cs |-> chars]

JsNull == [t |-> "null", cs |-> << >>, verb |-> Undefined, level |-> Undefined]

JsStr(chars) == [t |-> "string", cs |-> chars, verb |-> Undefined, level |-> Undefined]

JsObj(v, l) == [t |-> "object", cs |-> << >>, verb |-> v, level |-> l]

\* A JSON number, held as the characters String(x) gives.
JsNumber(chars) == [t |-> "number", cs |-> chars]

\* ToBoolean: undefined, null, the empty string and 0 are falsy.
Truthy(x) ==
  IF x.t = "string" THEN x.cs # << >>
  ELSE IF x.t = "number" THEN x.cs # <<"0">>
  ELSE x.t = "object"

\* x || y
Or(x, y) == IF Truthy(x) THEN x ELSE y

\* x ?? y
Coalesce(x, y) == IF x.t \in {"undefined", "null"} THEN y ELSE x

\* String(x || ''), for x undefined, null or a string.
StringOrEmpty(x) == IF Truthy(x) THEN x.cs ELSE << >>

\* String.prototype.toUpperCase, on ASCII.
UpperChar(c) ==
  IF \E i \in 1..Len(LowerLetters) : LowerLetters[i] = c
  THEN UpperLetters[CHOOSE i \in 1..Len(LowerLetters) : LowerLetters[i] = c]
  ELSE c

ToUpperCase(s) == [i \in 1..Len(s) |-> UpperChar(s[i])]

(***************************************************************************)
(* The verb pool normalizer of /api/suggest and /api/evaluate.             *)
(***************************************************************************)
Remember == <<"R", "e", "m", "e", "m", "b", "e", "r">>

Understand == <<"U", "n", "d", "e", "r", "s", "t", "a", "n", "d">>

Apply == <<"A", "p", "p", "l", "y">>

Analyze == <<"A", "n", "a", "l", "y", "z", "e">>

Evaluate == <<"E", "v", "a", "l", "u", "a", "t", "e">>

Create == <<"C", "r", "e", "a", "t", "e">>

\* LEVEL2BLOOM[linkLevel] || LEVEL2BLOOM.I
LEVEL2BLOOM(linkLevel) ==
  CASE linkLevel = <<"I">> -> <<Remember, Understand>>
    [] linkLevel = <<"R">> -> <<Apply, Analyze>>
    [] linkLevel = <<"M">> -> <<Analyze, Evaluate>>
    [] linkLevel = <<"A">> -> <<Evaluate, Create>>
    [] OTHER -> <<Remember, Understand>>

\* String(linkLevelFromBody ?? levelFromBody ?? 'I').toUpperCase()
LinkLevel(linkLevelFromBody, levelFromBody) ==
  LET LEVEL == IF linkLevelFromBody.t \notin {"undefined", "null"}
               THEN linkLevelFromBody
               ELSE IF levelFromBody.t \notin {"undefined", "null"}
               THEN levelFromBody
               ELSE Str(<<"I">>)
  IN  ToUpperCase(LEVEL.cs)

\* The null that norm returns, which filter(Boolean) drops.
NormNull == [isNull |-> TRUE, verb |-> << >>, level |-> << >>]

NormEntry(v, l) == [isNull |-> FALSE, verb |-> v, level |-> l]

norm(x) ==
  IF ~Truthy(x) THEN NormNull
  ELSE IF x.t = "string" THEN NormEntry(Trim(x.cs), << >>)
  ELSE LET v == Trim(StringOrEmpty(x.verb))
           l == Trim(StringOrEmpty(x.level))
       IN  IF v # << >> THEN NormEntry(v, l) ELSE NormNull

\* (bloomVerbs || []).map(norm).filter(Boolean)
Coerced(bloomVerbs) ==
  LET mapped == [i \in 1..Len(bloomVerbs) |-> norm(bloomVerbs[i])]
  IN  FilterIdx(mapped, {i \in 1..Len(mapped) : ~mapped[i].isNull}, 1)

\* xs.filter(x => targetBloomLevels.includes(x.level))
ByTarget(xs, targetBloomLevels) ==
  FilterIdx(xs,
    {i \in 1..Len(xs) :
       \E j \in 1..Len(targetBloomLevels) : targetBloomLevels[j] = xs[i].level}, 1)

\* The level filter without its fallback to the unfiltered entries.
LevelPoolStrict(bloomVerbs, targetBloomLevels) ==
  ByTarget(Coerced(bloomVerbs), targetBloomLevels)

\* if (byTarget.length > 0) filtered = byTarget
LevelPool(bloomVerbs, targetBloomLevels) ==
  LET filtered == Coerced(bloomVerbs)
      byTarget == ByTarget(filtered, targetBloomLevels)
  IN  IF Len(byTarget) > 0 THEN byTarget ELSE filtered

\* The deduplication with the verb itself as key, not its lower-cased text.
RECURSIVE UniqExact(_, _, _, _)
UniqExact(pool, i, seen, uniq) ==
  IF i > Len(pool) THEN uniq
  ELSE LET k == pool[i].verb
       IN  IF k \notin seen
           THEN UniqExact(pool, i + 1, seen \cup {k}, Append(uniq, pool[i]))
           ELSE UniqExact(pool, i + 1, seen, uniq)

\* for (const it of pool) { k = it.verb.toLowerCase(); if (!seen.has(k)) ... }
RECURSIVE Uniq(_, _, _, _)
Uniq(pool, i, seen, uniq) ==
  IF i > Len(pool) THEN uniq
  ELSE LET k == ToLowerCase(pool[i].verb)
       IN  IF k \notin seen
           THEN Uniq(pool, i + 1, seen \cup {k}, Append(uniq, pool[i]))
           ELSE Uniq(pool, i + 1, seen, uniq)

MAX_VERBS_SUGGEST == 180

MAX_VERBS_EVALUATE == 150

\* The dash that stands for an empty level, U+2014 in the source.
EmDash == "~"

\* `${it.verb} (${it.level || '-'})`
RenderVerb(it) ==
  it.verb \o <<" ", "(">> \o (IF it.level # << >> THEN it.level ELSE <<EmDash>>)
          \o <<")">>

\* Array.prototype.join(', ') of character sequences.
RECURSIVE Join(_, _)
Join(xs, i) ==
  IF i > Len(xs) THEN << >>
  ELSE IF i = Len(xs) THEN xs[i]
  ELSE xs[i] \o <<",", " ">> \o Join(xs, i + 1)

\* The six default verbs, without their Vietnamese diacritics.
fallbackVerbs ==
  << <<"M", "o", " ", "t", "a">>,
     <<"G", "i", "a", "i", " ", "t", "h", "i", "c", "h">>,
     <<"V", "a", "n", " ", "d", "u", "n", "g">>,
     <<"P", "h", "a", "n", " ", "t", "i", "c", "h">>,
     <<"D", "a", "n", "h", " ", "g", "i", "a">>,
     <<"X", "a", "y", " ", "d", "u", "n", "g">> >>

\* uniq.slice(0, MAX_VERBS).map(render).join(', ')
VerbsForPrompt(uniq, maxVerbs) ==
  LET cut == Slice0(uniq, maxVerbs)
  IN  Join([i \in 1..Len(cut) |-> RenderVerb(cut[i])], 1)

\* The normalizer of a handler, from the body's fields to what the prompt
\* gets: VERB_LIST is the rendered text, verbs the verb texts rendered into
\* it, usedFallback tells that verbsForPrompt was the empty string.
Normalize(bloomVerbs, linkLevelFromBody, levelFromBody, maxVerbs) ==
  LET linkLevel         == LinkLevel(linkLevelFromBody, levelFromBody)
      targetBloomLevels == LEVEL2BLOOM(linkLevel)
      pool              == LevelPool(bloomVerbs, targetBloomLevels)
      uniq              == Uniq(pool, 1, {}, << >>)
      verbsForPrompt    == VerbsForPrompt(uniq, maxVerbs)
      cut               == Slice0(uniq, maxVerbs)
  IN  [linkLevel    |-> linkLevel,
       coerced      |-> Coerced(bloomVerbs),
       byTarget     |-> ByTarget(Coerced(bloomVerbs), targetBloomLevels),
       uniq         |-> uniq,
       usedFallback |-> verbsForPrompt = << >>,
       verbs        |-> IF verbsForPrompt = << >> THEN fallbackVerbs
                        ELSE [i \in 1..Len(cut) |-> cut[i].verb],
       VERB_LIST    |-> IF verbsForPrompt # << >> THEN verbsForPrompt
                        ELSE Join(fallbackVerbs, 1)]

(***************************************************************************)
(* Model selection.                                                        *)
(***************************************************************************)
\* A model override of the body: a string (s) or undefined.
NoModel == [t |-> "undefined", s |-> ""]

ModelStr(name) == [t |-> "string", s |-> name]

OverrideGiven(overrideModel) == overrideModel.t = "string" /\ overrideModel.s # ""

\* pickModel with the mode looked at before the override.
pickModelModeFirst(kind, overrideModel, MODEL_MODE, DEFAULT_MODEL) ==
  IF MODEL_MODE = "full" THEN "gpt-5"
  ELSE IF MODEL_MODE = "mini" THEN "gpt-5-mini"
  ELSE IF OverrideGiven(overrideModel) THEN overrideModel.s
  ELSE IF kind = "suggest" THEN "gpt-5-mini"
  ELSE IF kind = "evaluate" THEN "gpt-5"
  ELSE DEFAULT_MODEL

pickModel(kind, overrideModel, MODEL_MODE, DEFAULT_MODEL) ==
  IF OverrideGiven(overrideModel) THEN overrideModel.s
  ELSE IF MODEL_MODE = "full" THEN "gpt-5"
  ELSE IF MODEL_MODE = "mini" THEN "gpt-5-mini"
  ELSE IF kind = "suggest" THEN "gpt-5-mini"
  ELSE IF kind = "evaluate" THEN "gpt-5"
  ELSE DEFAULT_MODEL

\* const modelName = model || DEFAULT_MODEL   (the /api/raw route)
RawModel(overrideModel, DEFAULT_MODEL) ==
  IF OverrideGiven(overrideModel) THEN overrideModel.s ELSE DEFAULT_MODEL

(***************************************************************************)
(* Objects.  The heap is a sequence of objects, an object a function from  *)
(* its property names to values, a value either a primitive (ref = 0) or a *)
(* reference to the object heap[ref].                                      *)
(***************************************************************************)
Prim(v) == [ref |-> 0, val |-> v]

Ref(n) == [ref |-> n, val |-> ""]

Has(obj, f) == f \in DOMAIN obj

\* delete obj[f]
Delete(obj, f) == [g \in (DOMAIN obj) \ {f} |-> obj[g]]

\* { ...obj, [f]: v }
With(obj, f, v) == [g \in (DOMAIN obj) \cup {f} |-> IF g = f THEN v ELSE obj[g]]

\* params?.[outer]?.[inner] is truthy: the nested object is there and holds a
\* non-empty string under inner.
HasHint(h, p, outer, inner) ==
  /\ Has(h[p], outer)
  /\ h[p][outer].ref # 0
  /\ Has(h[h[p][outer].ref], inner)
  /\ h[h[p][outer].ref][inner].val # ""

\* What the upstream call reads from a parameter object: its properties, the
\* nested objects by content.
Snapshot(h, p) ==
  [f \in DOMAIN h[p] |->
     IF h[p][f].ref # 0 THEN h[h[p][f].ref] ELSE [value |-> h[p][f]]]

(***************************************************************************)
(* createResponseWithFallback: the catch block.                            *)
(***************************************************************************)
\* Array.prototype.includes on strings: pat occurs in msg.
Includes(msg, pat) ==
  \E i \in 1..(Len(msg) - Len(pat) + 1) : SubSeq(msg, i, i + Len(pat) - 1) = pat

\* (e?.message || '').toLowerCase() holds one of the four marker texts.
IsUnknownParam(e) ==
  LET msg == ToLowerCase(StringOrEmpty(e.message))
  IN  \/ Includes(msg, <<"u", "n", "k", "n", "o", "w", "n">>)
      \/ Includes(msg, <<"u", "n", "r", "e", "c", "o", "g", "n", "i", "z", "e", "d">>)
      \/ Includes(msg, <<"i", "n", "v", "a", "l", "i", "d", " ",
                         "p", "a", "r", "a", "m", "e", "t", "e", "r">>)
      \/ Includes(msg, <<"u", "n", "s", "u", "p", "p", "o", "r", "t", "e", "d">>)

\* The catch block with its retries gated by isUnknownParam.
FallbackKindGated(h, p, stripV, stripR, e) ==
  IF ~IsUnknownParam(e) THEN "throw"
  ELSE IF ~stripV /\ HasHint(h, p, "text", "verbosity") THEN "verbosity"
  ELSE IF ~stripR /\ HasHint(h, p, "reasoning", "effort") THEN "reasoning"
  ELSE "throw"

\* Which branch of the catch block runs for error e.
FallbackKind(h, p, stripV, stripR, e) ==
  IF ~stripV /\ HasHint(h, p, "text", "verbosity") THEN "verbosity"
  ELSE IF ~stripR /\ HasHint(h, p, "reasoning", "effort") THEN "reasoning"
  ELSE "throw"

\* Fallback 1 without the copy of params.text: delete p2.text.verbosity then
\* acts on the text object of the caller.
Fallback1Shared(h, p, stripV, stripR) ==
  LET h1 == [h EXCEPT ![h[p].text.ref] = Delete(h[h[p].text.ref], "verbosity")]
      h2 == Append(h1, h[p])
  IN  [heap |-> h2, params |-> Len(h2), stripVerbosity |-> TRUE,
       stripReasoning |-> stripR]

\* Fallback 1: p2 = { ...params, text: { ...(params.text || {}) } };
\* delete p2.text.verbosity; recurse with { stripVerbosity: true, stripReasoning }.
Fallback1(h, p, stripV, stripR) ==
  LET text2 == Delete(h[h[p].text.ref], "verbosity")
      h1    == Append(h, text2)
      p2    == With(h[p], "text", Ref(Len(h1)))
      h2    == Append(h1, p2)
  IN  [heap |-> h2, params |-> Len(h2), stripVerbosity |-> TRUE,
       stripReasoning |-> stripR]

\* Fallback 2 that retries with the copy as it is and stripReasoning as it was.
Fallback2Unmarked(h, p, stripV, stripR) ==
  LET h2 == Append(h, h[p])
  IN  [heap |-> h2, params |-> Len(h2), stripVerbosity |-> TRUE,
       stripReasoning |-> stripR]

\* Fallback 2: p2 = { ...params }; delete p2.reasoning;
\* recurse with { stripVerbosity: true, stripReasoning: true }.
Fallback2(h, p, stripV, stripR) ==
  LET p2 == Delete(h[p], "reasoning")
      h2 == Append(h, p2)
  IN  [heap |-> h2, params |-> Len(h2), stripVerbosity |-> TRUE,
       stripReasoning |-> TRUE]

(***************************************************************************)
(* The state: the process configuration, and one request in flight with    *)
(* the locals of its handler and of createResponseWithFallback.            *)
(***************************************************************************)
VARIABLES
  config,          \* MODEL_MODE and DEFAULT_MODEL, read once at startup
  pc,              \* "idle", "await" (an upstream call is pending), "done",
                   \* "crashed" (the process ran out of memory)
  route,           \* "suggest", "evaluate", "raw" ("" when idle)
  body,            \* req.body
  count,           \* the count local of /api/suggest
  modelName,       \* the modelName local
  normalized,      \* the locals of the verb pool normalizer
  heap,            \* the objects allocated for this request
  params,          \* params of the running createResponseWithFallback frame
  stripVerbosity,  \* its two flags
  stripReasoning,
  calls,           \* what each client.responses.create call was given
  results,         \* how each finished call ended
  outcome,         \* how the outermost createResponseWithFallback ended
  parsed,          \* the items of /api/suggest with the lines they come from
  response,        \* what res.json sent
  logged           \* what console.error printed

vars ==
  <<config, pc, route, body, count, modelName, normalized, heap, params,
    stripVerbosity, stripReasoning, calls, results, outcome, parsed, response,
    logged>>

DEFAULT_COUNT == 6

Num(n) == [t |-> "number", n |-> n]

NoNum == [t |-> "undefined", n |-> 0]

\* const { ..., count = 6, ... } = req.body
CountOf(c) == IF c.t = "undefined" THEN DEFAULT_COUNT ELSE c.n

\* count given as null, and as a numeric string: both are converted to a
\* number where the handler compares and slices.
NullNum == [t |-> "null", n |-> 0]

NumStr(n) == [t |-> "string", n |-> n]

\* count given as 1e999, which JSON.parse reads as Infinity: in comparisons
\* with an array length it is any number beyond MaxArrayLength.
InfiniteCount == [t |-> "infinity", n |-> MaxArrayLength + 1]

\* course of the body: its type and the five properties the handlers read.
NoCourse ==
  [t |-> "undefined", label |-> Undefined, id |-> Undefined,
   fullname |-> Undefined, tong |-> Undefined, credits |-> Undefined]

NullCourse == [NoCourse EXCEPT !.t = "null"]

Course(label, fullname, tong) ==
  [NoCourse EXCEPT !.t = "object", !.label = label, !.fullname = fullname,
                   !.tong = tong]

\* req.body || {}: every field absent.  bloomVerbsIs tells an array from a
\* truthy value of another type ("string", "object"), which has no entries.
NoBody ==
  [bloomVerbs |-> << >>, bloomVerbsIs |-> "array", linkLevel |-> Undefined,
   level |-> Undefined, count |-> NoNum, model |-> NoModel,
   prompt |-> Undefined, max_tokens |-> NoNum, plo |-> Undefined,
   ploText |-> Undefined, cloText |-> Undefined, course |-> NoCourse]

NoNormalized == Normalize(<< >>, Undefined, Undefined, 0)

NoRsp == [output_text |-> Undefined]

NoErr == [message |-> Undefined]

Pending == [state |-> "pending", rsp |-> NoRsp, e |-> NoErr]

\* keys are the properties of the JSON body sent.
NoResponse ==
  [status |-> 0, keys |-> {}, error |-> "", items |-> << >>, text |-> << >>,
   model |-> ""]

NoLog == [tag |-> "", what |-> Undefined]

\* The state between two requests.
Idle ==
  /\ pc = "idle"
  /\ route = ""
  /\ body = NoBody
  /\ count = 0
  /\ modelName = ""
  /\ normalized = NoNormalized
  /\ heap = << >>
  /\ params = 0
  /\ stripVerbosity = FALSE
  /\ stripReasoning = FALSE
  /\ calls = << >>
  /\ results = << >>
  /\ outcome = Pending
  /\ parsed = << >>
  /\ response = NoResponse
  /\ logged = NoLog

(***************************************************************************)
(* The inputs: configurations, request bodies, upstream answers.           *)
(***************************************************************************)
\* MODEL_MODE is lower-cased at startup; any other word behaves as "auto".
Configs ==
  [MODEL_MODE : {"auto", "full", "mini", "other"},
   DEFAULT_MODEL : {"gpt-5", "gpt-4o-mini"}]

ModelOverrides == {NoModel, ModelStr(""), ModelStr("o3")}

\* linkLevel and level of the body.
LevelPairs ==
  { <<Undefined, Undefined>>,
    <<Str(<<"r">>), Undefined>>,
    <<Null, Str(<<"A">>)>>,
    <<Str(<<"x">>), Str(<<"R">>)>> }

VerbEntries ==
  { JsNull,
    JsStr(<< >>),
    JsStr(<<" ">>),
    JsStr(<<"a">>),
    JsObj(Str(<<"A", " ">>), Str(Apply)),
    JsObj(Str(<<"b">>), Str(<<" ", "R", "e", "m", "e", "m", "b", "e", "r">>)),
    JsObj(Str(<<" ">>), Str(Apply)),
    JsObj(Str(<<"B">>), Undefined) }

\* All sequences over S of length at most n.
RECURSIVE SeqsUpTo(_, _)
SeqsUpTo(S, n) ==
  IF n = 0 THEN {<< >>}
  ELSE LET shorter == SeqsUpTo(S, n - 1)
       IN  shorter \cup {Append(xs, x) : xs \in shorter, x \in S}

SomePools ==
  { << >>,
    <<JsNull>>,
    <<JsStr(<<" ">>)>>,
    <<JsStr(<<"a">>), JsObj(Str(<<"A", " ">>), Str(Apply))>> }

SuggestBody(pool, levels, c, m) ==
  [NoBody EXCEPT !.bloomVerbs = pool, !.linkLevel = levels[1],
                 !.level = levels[2], !.count = c, !.model = m]

EvaluateBody(pool, levels, m) ==
  [NoBody EXCEPT !.bloomVerbs = pool, !.linkLevel = levels[1],
                 !.level = levels[2], !.model = m]

RawBody(mt, m) ==
  [NoBody EXCEPT !.prompt = Str(<<"h", "i">>), !.max_tokens = mt, !.model = m]

\* The requests of the main specification.
Requests ==
  {<<"suggest", SuggestBody(pool, lv, c, m)>> :
      pool \in SomePools, lv \in {<<Undefined, Undefined>>, <<Str(<<"r">>), Undefined>>},
      c \in {NoNum, Num(2)}, m \in ModelOverrides}
  \cup
  {<<"evaluate", EvaluateBody(pool, <<Undefined, Undefined>>, m)>> :
      pool \in SomePools, m \in ModelOverrides}
  \cup
  {<<"raw", RawBody(mt, m)>> : mt \in {NoNum, Num(50)}, m \in ModelOverrides}

\* Lines the upstream text is made of.
LineMenu ==
  { <<"C", "L", "O", "1", ":", " ", "a">>,
    <<" ", "2", ")", " ", "C", "L", "O", " ", "2", " ", ":", "b", " ">>,
    <<"x">>,
    <<"-", " ", "y">>,
    <<"-">>,
    <<"#", " ", "h">>,
    << >> }

RECURSIVE JoinLines(_, _, _)
JoinLines(lines, sep, i) ==
  IF i > Len(lines) THEN << >>
  ELSE IF i = Len(lines) THEN lines[i]
  ELSE lines[i] \o sep \o JoinLines(lines, sep, i + 1)

\* Upstream texts of at most MaxLines lines, with either line break.
RawTexts ==
  {JoinLines(ls, sep, 1) : ls \in SeqsUpTo(LineMenu, MaxLines),
                           sep \in {<<"\n">>, <<"\r", "\n">>}}

SomeRsps ==
  { [output_text |-> Undefined],
    [output_text |-> Str(<<"C", "L", "O", "1", ":", " ", "a", "\n", "x">>)],
    [output_text |-> Str(<<"x", "\n", "-", "\n", "C", "L", "O", "2", ":", "b">>)] }

Errors ==
  { [message |-> Str(<<"U", "n", "k", "n", "o", "w", "n", " ",
                       "p", "a", "r", "a", "m">>)],
    [message |-> Str(<<"t", "i", "m", "e", "o", "u", "t">>)],
    [message |-> Undefined] }

(***************************************************************************)
(* The handlers up to their upstream call.                                 *)
(***************************************************************************)
\* (course.label || course.id || '')
CourseLabelValue(course) == Or(Or(course.label, course.id), Str(<< >>))

\* (course.fullname || '')
CourseFullValue(course) == Or(course.fullname, Str(<< >>))

\* (course.tong ?? course.credits ?? '')
CreditsValue(course) == Coalesce(Coalesce(course.tong, course.credits), Str(<< >>))

TypeError(chars) == [message |-> Str(chars)]

\* The error the handler itself throws before its upstream call, NoErr if
\* none: .map of a value that is no array, a property of null, .trim of a
\* value that is no string.
HandlerError(r, b) ==
  IF r = "raw" THEN NoErr
  ELSE IF b.bloomVerbsIs # "array"
  THEN TypeError(<<"m", "a", "p", " ", "i", "s", " ", "n", "o", "t", " ", "a", " ", "f", "u", "n", "c", "t", "i", "o", "n">>)
  ELSE IF b.course.t = "null"
  THEN TypeError(<<"C", "a", "n", "n", "o", "t", " ", "r", "e", "a", "d", " ", "p", "r", "o", "p", "e", "r", "t", "i", "e", "s", " ", "o", "f", " ", "n", "u", "l", "l">>)
  ELSE IF CourseLabelValue(b.course).t # "string"
          \/ CourseFullValue(b.course).t # "string"
  THEN TypeError(<<"t", "r", "i", "m", " ", "i", "s", " ", "n", "o", "t", " ", "a", " ", "f", "u", "n", "c", "t", "i", "o", "n">>)
  ELSE NoErr

\* `${x}` in a template literal.
Template(x) ==
  CASE x.t = "undefined" -> <<"u", "n", "d", "e", "f", "i", "n", "e", "d">>
    [] x.t = "null" -> <<"n", "u", "l", "l">>
    [] x.t = "object" -> <<"[", "o", "b", "j", "e", "c", "t", " ", "O", "b", "j", "e", "c", "t", "]">>
    [] OTHER -> x.cs

\* `${count}`
CountText(c) ==
  CASE c.t = "undefined" -> NumToString(DEFAULT_COUNT)
    [] c.t = "null" -> <<"n", "u", "l", "l">>
    [] c.t = "infinity" -> <<"I", "n", "f", "i", "n", "i", "t", "y">>
    [] OTHER -> NumToString(c.n)

\* name = '' in the destructuring: the default replaces undefined only.
DefaultEmpty(x) == IF x.t = "undefined" THEN Str(<< >>) ELSE x

\* The fields the handler interpolates into its prompt template.
HandlerPrompt(r, b, n, c) ==
  CASE r = "raw" -> [template |-> r, text |-> StringOrEmpty(b.prompt)]
    [] r = "suggest" ->
         [template |-> r, linkLevel |-> n.linkLevel, VERB_LIST |-> n.VERB_LIST,
          count |-> c, countText |-> CountText(b.count),
          courseLabel |-> Trim(CourseLabelValue(b.course).cs),
          courseFull |-> Trim(CourseFullValue(b.course).cs),
          credits |-> Template(CreditsValue(b.course)),
          plo |-> Template(b.plo),
          ploText |-> Template(DefaultEmpty(b.ploText))]
    [] OTHER ->
         [template |-> r, linkLevel |-> n.linkLevel, VERB_LIST |-> n.VERB_LIST,
          count |-> c,
          courseLabel |-> Trim(CourseLabelValue(b.course).cs),
          courseFull |-> Trim(CourseFullValue(b.course).cs),
          credits |-> Template(CreditsValue(b.course)),
          plo |-> Template(b.plo),
          ploText |-> Template(DefaultEmpty(b.ploText)),
          cloText |-> Template(DefaultEmpty(b.cloText))]

\* modelName of the handler of route r.
HandlerModel(r, overrideModel, cfg) ==
  IF r = "raw" THEN RawModel(overrideModel, cfg.DEFAULT_MODEL)
  ELSE pickModel(r, overrideModel, cfg.MODEL_MODE, cfg.DEFAULT_MODEL)

\* const { prompt = '', max_tokens = 600, model } = req.body
MaxTokens(b) == IF b.max_tokens.t = "undefined" THEN 600 ELSE b.max_tokens.n

\* The object literal the handler passes to createResponseWithFallback, with
\* its nested text and reasoning literals; the parameter object is the last.
HandlerParams(r, name, prompt, b) ==
  CASE r = "suggest" ->
         << [verbosity |-> Prim("low")],
            [effort |-> Prim("minimal")],
            [model |-> Prim(name), input |-> Prim(prompt), text |-> Ref(1),
             reasoning |-> Ref(2), max_output_tokens |-> Prim(900),
             temperature |-> Prim("0.4")] >>
    [] r = "evaluate" ->
         << [verbosity |-> Prim("medium")],
            [effort |-> Prim("medium")],
            [model |-> Prim(name), input |-> Prim(prompt), text |-> Ref(1),
             reasoning |-> Ref(2), max_output_tokens |-> Prim(600),
             temperature |-> Prim("0.2")] >>
    [] OTHER ->
         << [verbosity |-> Prim("low")],
            [model |-> Prim(name), input |-> Prim(prompt), text |-> Ref(1),
             max_output_tokens |-> Prim(MaxTokens(b))] >>

MaxVerbsOf(r) == IF r = "suggest" THEN MAX_VERBS_SUGGEST ELSE MAX_VERBS_EVALUATE

\* res.json(...) of the handler of route r, with the items of /api/suggest.
SuccessResponse(r, rsp, c, name) ==
  LET text == StringOrEmpty(rsp.output_text)
  IN  [status |-> 200,
       keys   |-> IF r = "suggest" THEN {"items", "raw", "model"}
                  ELSE {"text", "model"},
       error  |-> "",
       items  |-> IF r = "suggest" THEN Texts(SuggestItems(text, c)) ELSE << >>,
       text   |-> text,
       model  |-> name]

\* res.status(500).json({ error: ... }) of the handler of route r.
FailureResponse(r) ==
  [status |-> 500,
   keys   |-> {"error"},
   error  |-> CASE r = "suggest" -> "suggest_failed"
                [] r = "evaluate" -> "evaluate_failed"
                [] OTHER -> "raw_failed",
   items |-> << >>, text |-> << >>, model |-> ""]

\* The value console.error prints for an error without a message: the error.
ErrorObject == [t |-> "object", cs |-> << >>]

\* A catch block that also sends the message of the error.
HandlerCatchLeaky(r, err) ==
  [response |-> [FailureResponse(r) EXCEPT !.keys = {"error", "message"},
                                           !.text = StringOrEmpty(err.message)],
   logged   |-> [tag  |-> CASE r = "suggest" -> "[suggest_failed]"
                            [] r = "evaluate" -> "[evaluate_failed]"
                            [] OTHER -> "[raw_failed]",
                 what |-> Or(err.message, ErrorObject)]]

\* catch (err) { console.error('[..._failed]', err?.message || err);
\*               res.status(500).json({ error: '..._failed' }); }
HandlerCatch(r, err) ==
  [response |-> FailureResponse(r),
   logged   |-> [tag  |-> CASE r = "suggest" -> "[suggest_failed]"
                            [] r = "evaluate" -> "[evaluate_failed]"
                            [] OTHER -> "[raw_failed]",
                 what |-> Or(err.message, ErrorObject)]]

\* A request enters its handler, which runs to the first
\* await client.responses.create(params), or to its catch block when one of
\* its own statements throws before that.
Receive(reqs) ==
  /\ pc = "idle"
  /\ \E rq \in reqs :
       LET r      == rq[1]
           b      == rq[2]
           c      == IF r = "suggest" THEN CountOf(b.count) ELSE 0
           n      == IF r = "raw" \/ b.bloomVerbsIs # "array" THEN NoNormalized
                     ELSE Normalize(b.bloomVerbs, b.linkLevel, b.level, MaxVerbsOf(r))
           err    == HandlerError(r, b)
           caught == HandlerCatch(r, err)
           name   == HandlerModel(r, b.model, config)
           h      == HandlerParams(r, name, HandlerPrompt(r, b, n, c), b)
       IN  /\ route' = r
           /\ body' = b
           /\ count' = c
           /\ normalized' = n
           /\ IF err # NoErr
              THEN /\ modelName' = ""
                   /\ heap' = << >>
                   /\ params' = 0
                   /\ calls' = << >>
                   /\ response' = caught.response
                   /\ logged' = caught.logged
                   /\ pc' = "done"
              ELSE /\ modelName' = name
                   /\ heap' = h
                   /\ params' = Len(h)
                   /\ calls' = <<Snapshot(h, Len(h))>>
                   /\ pc' = "await"
                   /\ UNCHANGED <<response, logged>>
  /\ stripVerbosity' = FALSE
  /\ stripReasoning' = FALSE
  /\ UNCHANGED <<config, results, outcome, parsed>>

(***************************************************************************)
(* The upstream call ends.                                                 *)
(***************************************************************************)
\* The padding loop cannot end by itself: count is beyond every array length
\* and the text has an unclaimed line, which every iteration finds again.
Overflows(r, rsp, c) ==
  /\ r = "suggest"
  /\ c > MaxArrayLength
  /\ FirstExtra(StringOrEmpty(rsp.output_text)) # 0

\* How such a loop ends: items.push throws once the array is at its largest
\* length, unless the process has run out of memory before.
LoopEnds == {"RangeError", "out of memory"}

RangeError == [message |-> Str(<<"I", "n", "v", "a", "l", "i", "d", " ", "a", "r", "r", "a", "y", " ", "l", "e", "n", "g", "t", "h">>)]

\* The pending call resolves: every frame of createResponseWithFallback
\* returns rsp, and the handler sends its answer.
Resolve(rsps) ==
  /\ pc = "await"
  /\ \E rsp \in rsps :
       /\ results' = Append(results, [state |-> "returned", rsp |-> rsp, e |-> NoErr])
       /\ outcome' = [state |-> "returned", rsp |-> rsp, e |-> NoErr]
       /\ IF Overflows(route, rsp, count)
          THEN \E end \in LoopEnds :
                 /\ parsed' = << >>
                 /\ IF end = "RangeError"
                    THEN /\ response' = HandlerCatch(route, RangeError).response
                         /\ logged' = HandlerCatch(route, RangeError).logged
                         /\ pc' = "done"
                    ELSE /\ pc' = "crashed"
                         /\ UNCHANGED <<response, logged>>
          ELSE /\ parsed' = IF route = "suggest"
                            THEN SuggestItems(StringOrEmpty(rsp.output_text), count)
                            ELSE << >>
               /\ response' = SuccessResponse(route, rsp, count, modelName)
               /\ pc' = "done"
               /\ UNCHANGED logged
  /\ UNCHANGED <<config, route, body, count, modelName, normalized, heap, params,
                 stripVerbosity, stripReasoning, calls>>

\* The pending call rejects with e: the catch block of the running frame
\* either calls createResponseWithFallback again, which calls upstream, or
\* rethrows e, which no outer frame catches and the handler answers with 500.
Reject ==
  /\ pc = "await"
  /\ \E e \in Errors :
       LET kind == FallbackKind(heap, params, stripVerbosity, stripReasoning, e)
           next == IF kind = "verbosity"
                   THEN Fallback1(heap, params, stripVerbosity, stripReasoning)
                   ELSE Fallback2(heap, params, stripVerbosity, stripReasoning)
       IN  /\ results' = Append(results, [state |-> "thrown", rsp |-> NoRsp, e |-> e])
           /\ IF kind = "throw"
              THEN /\ outcome' = [state |-> "thrown", rsp |-> NoRsp, e |-> e]
                   /\ response' = HandlerCatch(route, e).response
                   /\ logged' = HandlerCatch(route, e).logged
                   /\ pc' = "done"
                   /\ UNCHANGED <<heap, params, stripVerbosity, stripReasoning, calls>>
              ELSE /\ heap' = next.heap
                   /\ params' = next.params
                   /\ stripVerbosity' = next.stripVerbosity
                   /\ stripReasoning' = next.stripReasoning
                   /\ calls' = Append(calls, Snapshot(next.heap, next.params))
                   /\ UNCHANGED <<outcome, response, logged, pc>>
  /\ UNCHANGED <<config, route, body, count, modelName, normalized, parsed>>

\* The request is over; the server waits for the next one.
NextRequest ==
  /\ pc = "done"
  /\ pc' = "idle"
  /\ route' = ""
  /\ body' = NoBody
  /\ count' = 0
  /\ modelName' = ""
  /\ normalized' = NoNormalized
  /\ heap' = << >>
  /\ params' = 0
  /\ stripVerbosity' = FALSE
  /\ stripReasoning' = FALSE
  /\ calls' = << >>
  /\ results' = << >>
  /\ outcome' = Pending
  /\ parsed' = << >>
  /\ response' = NoResponse
  /\ logged' = NoLog
  /\ UNCHANGED config

Init == config \in Configs /\ Idle

ReceiveAny == Receive(Requests)

ResolveAny == Resolve(SomeRsps)

Next == ReceiveAny \/ ResolveAny \/ Reject \/ NextRequest

Spec == Init /\ [][Next]_vars

(***************************************************************************)
(* Two more specifications run the same handlers on wider inputs: SpecNorm *)
(* sends every verb pool of at most MaxPool entries, SpecParse answers     *)
(* /api/suggest with every upstream text of at most MaxLines lines.        *)
(***************************************************************************)
InitOne == config = [MODEL_MODE |-> "auto", DEFAULT_MODEL |-> "gpt-5"] /\ Idle

NormRequests ==
  {<<"suggest", SuggestBody(pool, lv, NoNum, NoModel)>> :
      pool \in SeqsUpTo(VerbEntries, MaxPool), lv \in LevelPairs}
  \cup
  {<<"evaluate", EvaluateBody(pool, lv, NoModel)>> :
      pool \in SeqsUpTo(VerbEntries, MaxPool), lv \in LevelPairs}

ReceiveNorm == Receive(NormRequests)

ResolveOne == Resolve({[output_text |-> Str(<<"C", "L", "O", "1", ":", "a">>)]})

NextNorm == ReceiveNorm \/ ResolveOne \/ NextRequest

SpecNorm == InitOne /\ [][NextNorm]_vars

ParseRequests ==
  {<<"suggest", SuggestBody(<< >>, <<Undefined, Undefined>>, c, NoModel)>> :
      c \in {NoNum} \cup {Num(k) : k \in 1..MaxCount}}

ReceiveParse == Receive(ParseRequests)

ResolveParse ==
  Resolve({[output_text |-> Undefined]} \cup {[output_text |-> Str(t)] : t \in RawTexts})

NextParse == ReceiveParse \/ ResolveParse \/ NextRequest

SpecParse == InitOne /\ [][NextParse]_vars

(***************************************************************************)
(* SpecBody sends bodies whose fields are absent, null or of a type the    *)
(* handlers do not expect.                                                 *)
(***************************************************************************)
Courses ==
  { NoCourse,
    NullCourse,
    Course(Str(<<" ", "C", "1">>), Str(<<"F">>), JsNumber(<<"3">>)),
    Course(JsNumber(<<"5">>), Undefined, Undefined),
    Course(Null, JsNumber(<<"7">>), Null) }

TextFields == {Undefined, Null, Str(<<"t">>)}

Counts == {NoNum, NullNum, NumStr(2), Num(2), InfiniteCount}

BodyRequests ==
  {<<r, [NoBody EXCEPT !.course = co, !.bloomVerbsIs = is]>> :
      r \in {"suggest", "evaluate"}, co \in Courses,
      is \in {"array", "string", "object"}}
  \cup
  {<<r, [NoBody EXCEPT !.plo = p, !.ploText = pt, !.cloText = ct]>> :
      r \in {"suggest", "evaluate"}, p \in TextFields, pt \in TextFields,
      ct \in TextFields}
  \cup
  {<<"suggest", [NoBody EXCEPT !.count = c, !.level = lv]>> :
      c \in Counts, lv \in {Undefined, Null}}
  \cup
  {<<"raw", [NoBody EXCEPT !.prompt = p, !.max_tokens = mt]>> :
      p \in TextFields, mt \in {NoNum, Num(50)}}

ReceiveBody == Receive(BodyRequests)

NextBody == ReceiveBody \/ ResolveAny \/ Reject \/ NextRequest

SpecBody == InitOne /\ [][NextBody]_vars

(***************************************************************************)
(* The claims.                                                             *)
(***************************************************************************)
Handling == pc \in {"await", "done"}

Answered == pc = "done" /\ response.status = 200

\* C1: an invocation of createResponseWithFallback started by a route makes
\* at most three upstream calls; while it runs exactly one call is pending;
\* once it has ended every call made has ended, and its result (the response
\* returned or the error thrown) is the result of the last call made.
C1_AtMostThreeCalls ==
  /\ Len(calls) <= 3
  /\ pc = "await" => Len(results) + 1 = Len(calls)
  /\ pc = "done" =>
       /\ outcome.state # "pending"
       /\ Len(results) = Len(calls)
       /\ outcome = results[Len(results)]
       /\ \A i \in 1..(Len(results) - 1) : results[i].state = "thrown"

\* The third call has been made and its response returned.
C1_Witness ==
  pc = "done" /\ Len(calls) = 3 /\ outcome.state = "returned"

\* The verbosity hint, and the reasoning-effort hint, of an upstream call.
VerbosityPresent(call) == Has(call, "text") /\ Has(call.text, "verbosity")

EffortPresent(call) == Has(call, "reasoning") /\ Has(call.reasoning, "effort")

\* A step in which the pending upstream call fails.
AttemptFails ==
  /\ pc = "await"
  /\ Len(results') = Len(results) + 1
  /\ results'[Len(results')].state = "thrown"

\* C2: after a failed attempt the next step depends on the parameters and
\* the two flags alone: the verbosity hint, if present and not yet stripped,
\* is removed for the next attempt (stripVerbosity set, stripReasoning kept);
\* otherwise the reasoning object, if its effort hint is present and not yet
\* stripped, is removed (both flags set); otherwise no attempt follows.  No
\* attempt lacks the reasoning object of the first while it has the
\* verbosity hint.
C2_StripOrder ==
  /\ [][AttemptFails =>
          LET last == calls[Len(calls)]
          IN  IF VerbosityPresent(last) /\ ~stripVerbosity
              THEN /\ calls' = Append(calls,
                                 [last EXCEPT !.text = Delete(last.text, "verbosity")])
                   /\ stripVerbosity'
                   /\ stripReasoning' = stripReasoning
              ELSE IF EffortPresent(last) /\ ~stripReasoning
              THEN /\ calls' = Append(calls, Delete(last, "reasoning"))
                   /\ stripVerbosity'
                   /\ stripReasoning'
              ELSE /\ calls' = calls
                   /\ pc' = "done"
                   /\ outcome'.state = "thrown"]_vars
  /\ [](\A i \in 1..Len(calls) :
          Has(calls[1], "reasoning") /\ ~Has(calls[i], "reasoning")
            => ~VerbosityPresent(calls[i]))

\* Both hints were stripped after errors that are not parameter rejections.
C2_Witness ==
  /\ Len(calls) = 3
  /\ ~IsUnknownParam(results[1].e)
  /\ ~IsUnknownParam(results[2].e)
  /\ ~VerbosityPresent(calls[3]) /\ ~Has(calls[3], "reasoning")

\* C3: createResponseWithFallback never changes an object it was given: in
\* every step of a request each object that exists keeps its properties and
\* their values, and a retry runs on an object that did not exist before.
C3_NoMutation ==
  [][pc = "await" /\ pc' # "idle" =>
       /\ Len(heap') >= Len(heap)
       /\ \A i \in 1..Len(heap) : heap'[i] = heap[i]
       /\ Len(calls') > Len(calls) => params' > Len(heap)]_vars

\* After two retries the objects of the handler still hold both hints.
C3_Witness ==
  /\ pc = "done"
  /\ Len(calls) = 3
  /\ Has(heap[1], "verbosity")
  /\ Has(heap[2], "effort")
  /\ Has(heap[3], "reasoning")
  /\ heap[3].text = Ref(1)

\* The identifier the claim gives for a mode, kind and override; the
\* identifier itself (name) where the claim says nothing.
ClaimedModel(kind, overrideModel, mode, name) ==
  IF overrideModel.t = "string" /\ overrideModel.s # "" THEN overrideModel.s
  ELSE IF mode = "full" THEN "gpt-5"
  ELSE IF mode = "mini" THEN "gpt-5-mini"
  ELSE IF mode = "auto" /\ kind = "suggest" THEN "gpt-5-mini"
  ELSE IF mode = "auto" /\ kind = "evaluate" THEN "gpt-5"
  ELSE name

\* modelName is what every upstream call is given and what is sent back.
ModelSentAndReturned ==
  /\ \A i \in 1..Len(calls) : calls[i].model.value.val = modelName
  /\ Answered => response.model = modelName

\* C10 as stated: on suggest, evaluate and raw the override wins, and without
\* one mode full gives gpt-5 and mode mini gives gpt-5-mini.
C10_Original ==
  Handling =>
    /\ ModelSentAndReturned
    /\ modelName = ClaimedModel(route, body.model, config.MODEL_MODE, modelName)

\* C10 as amended: that holds on suggest and evaluate; on raw the identifier
\* is the override when one is given and the configured default model
\* otherwise, whatever the mode.
C10_ModelSelection ==
  Handling =>
    /\ ModelSentAndReturned
    /\ route \in {"suggest", "evaluate"} =>
         modelName = ClaimedModel(route, body.model, config.MODEL_MODE, modelName)
    /\ route = "raw" =>
         modelName = IF body.model.t = "string" /\ body.model.s # ""
                     THEN body.model.s ELSE config.DEFAULT_MODEL

\* /api/raw answered in mode mini, without an override, with the default model.
C10_Witness ==
  /\ Answered
  /\ route = "raw"
  /\ config.MODEL_MODE = "mini"
  /\ body.model = NoModel
  /\ response.model = config.DEFAULT_MODEL
  /\ response.model # "gpt-5-mini"

(***************************************************************************)
(* The output parser (SpecParse).                                          *)
(***************************************************************************)
SuggestAnswered == Answered /\ route = "suggest"

C8_Original ==
  SuggestAnswered =>
    \A i, j \in 1..Len(parsed) : i < j => parsed[i].line <= parsed[j].line

\* C8 as amended: the items taken from matching lines follow the order of
\* those lines in the raw text; every padded item comes after all of them,
\* wherever its line stands in the raw text, and the padded items do not
\* step back among themselves.
C8_MatchesInOrderPaddingLast ==
  SuggestAnswered =>
    LET lines == linesToItems(response.text)
    IN  /\ response.items = Texts(parsed)
        /\ \A k \in 1..Len(parsed) :
             /\ parsed[k].line \in 1..Len(lines)
             /\ parsed[k].padded = ~IsCloLine(lines[parsed[k].line])
             /\ parsed[k].text = IF parsed[k].padded
                                 THEN Synthesize(k, lines[parsed[k].line])
                                 ELSE lines[parsed[k].line]
        /\ \A i, j \in 1..Len(parsed) :
             i < j =>
               /\ parsed[i].padded => parsed[j].padded
               /\ ~parsed[j].padded => parsed[i].line < parsed[j].line
               /\ parsed[i].padded => parsed[i].line <= parsed[j].line

\* A padded item follows an item whose line comes later in the raw text.
C8_Witness ==
  /\ SuggestAnswered
  /\ \E i, j \in 1..Len(parsed) :
       i < j /\ ~parsed[i].padded /\ parsed[j].padded
             /\ parsed[j].line < parsed[i].line

\* C9: every item of /api/suggest is a non-empty string without leading or
\* trailing whitespace.
C9_Original ==
  SuggestAnswered =>
    \A k \in 1..Len(response.items) :
      response.items[k] # << >> /\ Trim(response.items[k]) = response.items[k]

(***************************************************************************)
(* The verb pool normalizer (SpecNorm).                                    *)
(***************************************************************************)
Normalizing == Handling /\ route \in {"suggest", "evaluate"}

\* The verb list of the prompt sent upstream is the normalizer's.
PromptHasPool ==
  \A i \in 1..Len(calls) : calls[i].input.value.val.VERB_LIST = normalized.VERB_LIST

\* C5: the verb pool rendered into the prompt of suggest and evaluate is not
\* empty and holds no two entries whose verbs are equal up to letter case.
C5_PoolNonEmptyUnique ==
  Normalizing =>
    /\ PromptHasPool
    /\ normalized.VERB_LIST # << >>
    /\ Len(normalized.verbs) >= 1
    /\ \A i, j \in 1..Len(normalized.verbs) :
         i < j => ToLowerCase(normalized.verbs[i]) # ToLowerCase(normalized.verbs[j])

\* Two entries that differ in letter case only were sent, one was rendered.
C5_Witness ==
  /\ Normalizing
  /\ ~normalized.usedFallback
  /\ Len(normalized.byTarget) = 0
  /\ \E i, j \in 1..Len(normalized.coerced) :
       /\ i < j
       /\ normalized.coerced[i].verb # normalized.coerced[j].verb
       /\ ToLowerCase(normalized.coerced[i].verb) = ToLowerCase(normalized.coerced[j].verb)

\* The rendered pool is the set of all coerced entries, one per verb.
PoolIsAllEntries ==
  /\ \A i \in 1..Len(normalized.verbs) :
       \E k \in 1..Len(normalized.coerced) :
         normalized.coerced[k].verb = normalized.verbs[i]
  /\ \A k \in 1..Len(normalized.coerced) :
       \E i \in 1..Len(normalized.verbs) :
         ToLowerCase(normalized.verbs[i]) = ToLowerCase(normalized.coerced[k].verb)

\* C6 as stated: when no entry has a permitted level the pool is the full
\* set of entries, and the six default verbs are used only when the pool
\* that was sent is empty.
C6_Original ==
  Normalizing =>
    /\ Len(body.bloomVerbs) > 0 /\ Len(normalized.byTarget) = 0
         => ~normalized.usedFallback /\ PoolIsAllEntries
    /\ normalized.usedFallback => Len(body.bloomVerbs) = 0

\* C6 as amended: when some entry survives the coercion and none of the
\* survivors has a permitted level, the pool is the full set of survivors;
\* the six default verbs are used exactly when no entry survives it.
C6_FallbackToAllEntries ==
  Normalizing =>
    /\ Len(normalized.coerced) > 0 /\ Len(normalized.byTarget) = 0
         => ~normalized.usedFallback /\ PoolIsAllEntries
    /\ normalized.usedFallback <=> Len(normalized.coerced) = 0
    /\ normalized.usedFallback => normalized.verbs = fallbackVerbs

\* Entries were sent for link level I, none at a level of I, all were used.
C6_Witness ==
  /\ Normalizing
  /\ normalized.linkLevel = <<"I">>
  /\ Len(normalized.byTarget) = 0
  /\ Len(normalized.verbs) >= 2
  /\ ~normalized.usedFallback
  /\ \E k \in 1..Len(normalized.coerced) : normalized.coerced[k].level = Apply

\* C7: every entry that survives the coercion has a verb that is not empty
\* after trimming, and so has every verb of the prompt.
C7_Original ==
  Normalizing =>
    /\ \A k \in 1..Len(normalized.coerced) : Trim(normalized.coerced[k].verb) # << >>
    /\ \A i \in 1..Len(normalized.verbs) : Trim(normalized.verbs[i]) # << >>
\* C11: a 500 response is only ever sent after an upstream attempt has
\* failed: whatever fields of the body are missing, null or wrongly typed,
\* the handler has called upstream by then and the last call made threw.
C11_Original ==
  response.status = 500 =>
    /\ Len(calls) >= 1
    /\ results # << >>
    /\ results[Len(results)].state = "thrown"

\* The prompt of the first upstream call of a suggest or evaluate request.
PromptSent == calls[1].input.value.val

\* C12: in the prompt sent upstream by the suggest and evaluate handlers, an
\* optional field that is absent from the body is rendered as the empty
\* text or as its default (count 6, link level I), and holds neither the
\* text "undefined" nor the text "null".
C12_Original ==
  route \in {"suggest", "evaluate"} /\ calls # << >> =>
    /\ body.plo.t = "undefined" => PromptSent.plo = << >>
    /\ body.ploText.t = "undefined" => PromptSent.ploText = << >>
    /\ route = "evaluate" /\ body.cloText.t = "undefined" =>
         PromptSent.cloText = << >>
    /\ body.course.label.t = "undefined" /\ body.course.id.t = "undefined" =>
         PromptSent.courseLabel = << >>
    /\ body.course.fullname.t = "undefined" => PromptSent.courseFull = << >>
    /\ body.course.tong.t = "undefined" /\ body.course.credits.t = "undefined" =>
         PromptSent.credits = << >>
    /\ route = "suggest" /\ body.count.t = "undefined" =>
         PromptSent.countText = NumToString(DEFAULT_COUNT)
    /\ body.linkLevel.t = "undefined" /\ body.level.t = "undefined" =>
         PromptSent.linkLevel = <<"I">>

\* The tag of route r.
RouteTag(r) ==
  CASE r = "suggest" -> "suggest_failed"
    [] r = "evaluate" -> "evaluate_failed"
    [] r = "raw" -> "raw_failed"

\* C13: when the last upstream attempt of the invoker has failed, the answer
\* has status 500 and a body with the one property error, whose value is the
\* tag of the route; nothing else is sent, whatever the error was, and the
\* message of the error (the error itself if it has none) is what the
\* server logs after the tag in brackets.
C13_OpaqueFailure ==
  pc = "done" /\ outcome.state = "thrown" =>
    /\ response.status = 500
    /\ response.keys = {"error"}
    /\ response.error = RouteTag(route)
    /\ response.items = << >> /\ response.text = << >> /\ response.model = ""
    /\ logged.tag \in {"[suggest_failed]", "[evaluate_failed]", "[raw_failed]"}
    /\ (logged.tag = "[suggest_failed]") = (route = "suggest")
    /\ (logged.tag = "[evaluate_failed]") = (route = "evaluate")
    /\ logged.what = IF Truthy(outcome.e.message) THEN outcome.e.message
                     ELSE ErrorObject

\* The third attempt of /api/evaluate failed with an error that has a message.
C13_Witness ==
  /\ pc = "done"
  /\ route = "evaluate"
  /\ Len(calls) = 3
  /\ outcome.state = "thrown"
  /\ outcome.e.message = Str(<<"t", "i", "m", "e", "o", "u", "t">>)
  /\ response.status = 500

\* C14: every request handed to a handler is answered exactly once: its
\* handler never ends without an answer, and an answer is one of the success
\* response and the 500 response.
C14_Original ==
  /\ pc # "crashed"
  /\ pc = "done" => response.status \in {200, 500}

====
